---- MODULE Spec2Model ----
(***************************************************************************)
(* A model of zipline/protocol.py: the Position / Positions / Portfolio /  *)
(* AlgorithmPortfolio / Account records, the deprecated key lookup that    *)
(* _deprecated_getitem_method attaches to them, the missing-key policy of  *)
(* the position book, and the two analytics current_portfolio_weights and  *)
(* expected_shortfall.                                                     *)
(*                                                                         *)
(* Python values are tagged records [t, v]; an object is its __dict__, a   *)
(* function from attribute names to values.  Floats are modelled by exact  *)
(* numbers (a weight is an exact fraction), dates by session indices.      *)
(***************************************************************************)
EXTENDS Integers, Sequences, FiniteSets, TLC

VARIABLES
    positions,   \* the Positions book: key -> __dict__ of the stored Position
    portfolio,   \* __dict__ of the AlgorithmPortfolio
    account,     \* __dict__ of the Account
    ret,         \* outcome of the last operation (value returned or exception)
    held,        \* a record the caller kept from an earlier book lookup
    lazyMap      \* whether the interpreter's map() is lazy (Python 3) or eager

vars == <<positions, portfolio, account, ret, held, lazyMap>>

----------------------------------------------------------------------------
(* Bounds of the model. *)

MaxPositions == 2
MaxAmount == 2
MaxPrice == 10

----------------------------------------------------------------------------
(* Python values. *)

Num(x) == [t |-> "num", v |-> x]
None == [t |-> "None", v |-> 0]
Inf == [t |-> "inf", v |-> 0]
NaN == [t |-> "nan", v |-> 0]
Equity(sid) == [t |-> "Equity", v |-> sid]
Future(sid) == [t |-> "Future", v |-> sid]
Asset(sid) == [t |-> "Asset", v |-> sid]
IntKey(n) == [t |-> "int", v |-> n]
StrKey(n) == [t |-> "str", v |-> n]

\* isinstance(x, Asset): Equity and Future are subclasses of Asset.
IsAsset(x) == x.t \in {"Asset", "Equity", "Future"}
IsEquity(x) == x.t = "Equity"
IsFuture(x) == x.t = "Future"
IsInt(x) == x.t = "int"

\* The assets of the model: an equity listed at session 0, an equity listed
\* at session 252, a future of a known root symbol, a future of a root symbol
\* the asset finder does not know, and an asset that is neither.
HeldAssets == {Equity(1), Equity(2), Future(3), Future(4), Asset(5)}
BenchmarkAsset == Equity(6)
NonAssetKeys == {IntKey(100), StrKey(1)}
Keys == HeldAssets \cup NonAssetKeys

Amounts == {-1, 0, MaxAmount}

----------------------------------------------------------------------------
(* Position and _DeprecatedSidLookupPosition. *)

\* A Position whose cost basis is left unset.
PositionNoCostBasis(asset) ==
    [asset |-> asset, amount |-> Num(0), cost_basis |-> None,
     last_sale_price |-> Num(0), last_sale_date |-> None]

\* Position.__init__ (expect_types(asset=Asset) is met by every caller here).
Position(asset) ==
    [asset |-> asset, amount |-> Num(0), cost_basis |-> Num(0),
     last_sale_price |-> Num(0), last_sale_date |-> None]

\* _DeprecatedSidLookupPosition.__init__
DeprecatedSidLookupPosition(sid) ==
    [sid |-> sid, amount |-> Num(0), cost_basis |-> Num(0),
     last_sale_price |-> Num(0), last_sale_date |-> None]

Warning(category, text) == [category |-> category, text |-> text]

\* A __missing__ that warns for no key.
Positions__missing__Silent(key) ==
    IF IsAsset(key)
    THEN [cls |-> "Position", obj |-> Position(key), warnings |-> <<>>]
    ELSE [cls |-> "_DeprecatedSidLookupPosition",
          obj |-> DeprecatedSidLookupPosition(key), warnings |-> <<>>]

\* Positions.__missing__: what a lookup of an absent key returns.  Nothing
\* here stores into the book.
Positions__missing__(key) ==
    IF IsAsset(key)
    THEN [cls |-> "Position", obj |-> Position(key), warnings |-> <<>>]
    ELSE IF IsInt(key)
    THEN [cls |-> "_DeprecatedSidLookupPosition",
          obj |-> DeprecatedSidLookupPosition(key),
          warnings |-> <<Warning("UserWarning",
                                 "Referencing positions by integer is deprecated")>>]
    ELSE [cls |-> "_DeprecatedSidLookupPosition",
          obj |-> DeprecatedSidLookupPosition(key),
          warnings |-> <<Warning("UserWarning",
                                 "Position lookup expected a value of type Asset")>>]

NoRet == [op |-> "none"]
NoHeld == [cls |-> "none", key |-> None, alias |-> FALSE, obj |-> None]

\* The record a handle denotes: the stored record when the handle aliases a
\* book entry, the handle's own record otherwise.
Deref(h) == IF h.alias THEN positions[h.key] ELSE h.obj

----------------------------------------------------------------------------
(* The state after construction. *)

\* Portfolio.__init__ followed by AlgorithmPortfolio.__init__
NewPortfolio(benchmark) ==
    [capital_used |-> Num(0), starting_cash |-> Num(0),
     portfolio_value |-> Num(0), pnl |-> Num(0), returns |-> Num(0),
     cash |-> Num(0), positions |-> [t |-> "Positions", v |-> 0],
     start_date |-> None, positions_value |-> Num(0),
     data_portal |-> [t |-> "DataPortal", v |-> 0],
     benchmark |-> benchmark, current_date |-> None]

\* Account.__init__
NewAccount ==
    [settled_cash |-> Num(0), accrued_interest |-> Num(0),
     buying_power |-> Inf, equity_with_loan |-> Num(0),
     total_positions_value |-> Num(0), total_positions_exposure |-> Num(0),
     regt_equity |-> Num(0), regt_margin |-> Inf,
     initial_margin_requirement |-> Num(0),
     maintenance_margin_requirement |-> Num(0), available_funds |-> Num(0),
     excess_liquidity |-> Num(0), cushion |-> Num(0),
     day_trades_remaining |-> Inf, leverage |-> Num(0),
     net_leverage |-> Num(0), net_liquidation |-> Num(0)]

\* Positions() is the empty dict.
EmptyBook == [k \in {} |-> None]

Init ==
    /\ positions = EmptyBook
    /\ \E b \in {None, BenchmarkAsset} : portfolio = NewPortfolio(b)
    /\ account = NewAccount
    /\ ret = NoRet
    /\ held = NoHeld
    /\ lazyMap \in BOOLEAN

----------------------------------------------------------------------------
(* The position book. *)

\* A lookup that stores what __missing__ builds for an asset (a defaultdict).
LookupInserting(key) ==
    /\ ret' = IF key \in DOMAIN positions
              THEN [op |-> "lookup", key |-> key, missing |-> FALSE,
                    status |-> "returned", cls |-> "Position", alias |-> TRUE,
                    obj |-> None, warnings |-> <<>>]
              ELSE LET m == Positions__missing__(key) IN
                   [op |-> "lookup", key |-> key, missing |-> TRUE,
                    status |-> "returned", cls |-> m.cls,
                    alias |-> IsAsset(key),
                    obj |-> m.obj, warnings |-> m.warnings]
    /\ positions' = IF key \in DOMAIN positions \/ ~IsAsset(key)
                    THEN positions
                    ELSE [k \in DOMAIN positions \cup {key} |->
                             IF k = key THEN Position(key) ELSE positions[k]]
    /\ UNCHANGED <<portfolio, account, held, lazyMap>>

\* positions[key]: dict.__getitem__, which calls __missing__ for an absent
\* key and returns its result without storing it.
Lookup(key) ==
    /\ ret' = IF key \in DOMAIN positions
              THEN [op |-> "lookup", key |-> key, missing |-> FALSE,
                    status |-> "returned", cls |-> "Position", alias |-> TRUE,
                    obj |-> None, warnings |-> <<>>]
              ELSE LET m == Positions__missing__(key) IN
                   [op |-> "lookup", key |-> key, missing |-> TRUE,
                    status |-> "returned", cls |-> m.cls, alias |-> FALSE,
                    obj |-> m.obj, warnings |-> m.warnings]
    /\ UNCHANGED <<positions, portfolio, account, held, lazyMap>>

\* The simulation driver stores a new Position for an asset it starts to hold:
\* positions[asset] = Position(asset).
Store(asset) ==
    /\ asset \notin DOMAIN positions
    /\ Cardinality(DOMAIN positions) < MaxPositions
    /\ positions' = [k \in DOMAIN positions \cup {asset} |->
                        IF k = asset THEN Position(asset) ELSE positions[k]]
    /\ ret' = NoRet
    /\ UNCHANGED <<portfolio, account, held, lazyMap>>

\* The caller binds the record the last lookup returned: p = positions[key].
Keep ==
    /\ ret.op = "lookup"
    /\ ret.status = "returned"
    /\ held' = [cls |-> ret.cls, key |-> ret.key, alias |-> ret.alias,
                obj |-> ret.obj]
    /\ ret' = NoRet
    /\ UNCHANGED <<positions, portfolio, account, lazyMap>>

\* The object a target names.
ObjOf(target) ==
    CASE target = "portfolio" -> portfolio
      [] target = "account" -> account
      [] target = "held" -> Deref(held)

ClassOf(target) ==
    CASE target = "portfolio" -> "AlgorithmPortfolio"
      [] target = "account" -> "Account"
      [] target = "held" -> held.cls

\* An attribute assignment, obj.name = val, by the driver or the caller.  It
\* sets the entry of the object's __dict__, adding it when it is new; sid is a
\* property of Position with no setter, so assigning it raises.  An assignment
\* to a held record reaches the book exactly when the record is the stored one.
SetAttr(target, name, val) ==
    /\ target = "held" => held.cls # "none"
    /\ LET obj == ObjOf(target)
           new == [n \in DOMAIN obj \cup {name} |->
                      IF n = name THEN val ELSE obj[n]]
           refused == ClassOf(target) = "Position" /\ name = "sid"
       IN  /\ ret' = IF refused
                     THEN [op |-> "setattr", status |-> "raised",
                           exc |-> "AttributeError"]
                     ELSE NoRet
           /\ portfolio' = IF target = "portfolio" THEN new ELSE portfolio
           /\ account' = IF target = "account" THEN new ELSE account
           /\ positions' = IF target = "held" /\ held.alias /\ ~refused
                           THEN [positions EXCEPT ![held.key] = new]
                           ELSE positions
           /\ held' = IF target = "held" /\ ~held.alias /\ ~refused
                      THEN [held EXCEPT !.obj = new]
                      ELSE held
    /\ UNCHANGED lazyMap

NextBook ==
    \/ \E key \in Keys : Lookup(key)
    \/ \E asset \in HeldAssets : Store(asset)
    \/ Keep
    \/ \E val \in Amounts : SetAttr("held", "amount", Num(val))

\* The book is exercised on a portfolio built without a benchmark.
InitBook == Init /\ portfolio.benchmark = None /\ lazyMap = FALSE

SpecBook == InitBook /\ [][NextBook]_vars

----------------------------------------------------------------------------
(* Claims about the position book (checked under SpecBook). *)

\* A step that is a lookup of key, absent from the book before the step.
MissingLookupStep(key) ==
    /\ key \notin DOMAIN positions
    /\ ret'.op = "lookup"
    /\ ret'.key = key
    /\ ret' # ret

ZeroFields(obj) ==
    /\ obj.amount = Num(0)
    /\ obj.cost_basis = Num(0)
    /\ obj.last_sale_price = Num(0)
    /\ obj.last_sale_date = None

\* C1 as stated: after the lookup of an absent asset, the asset is a key of
\* the book and the record returned is the stored one.
C1_LookupInsertsAsset ==
    (ret.op = "lookup" /\ ret.missing /\ IsAsset(ret.key))
        => (ret.key \in DOMAIN positions /\ ret.alias)

\* C1 amended: the lookup of an absent asset returns a new zero-valued
\* Position that is not stored: the book is left as it was, the asset is still
\* not a key, and so a later lookup of the same asset again returns a new
\* zero-valued record, whatever was assigned to the record returned before.
C1_LookupDoesNotInsert ==
    [][\A key \in HeldAssets :
          MissingLookupStep(key) =>
              /\ positions' = positions
              /\ key \notin DOMAIN positions'
              /\ ret'.status = "returned"
              /\ ~ret'.alias
              /\ ret'.obj.asset = key
              /\ ZeroFields(ret'.obj)]_vars

\* A second lookup of an absent asset, after the record the first lookup
\* returned was kept and assigned to.
C1_Witness ==
    /\ ret.op = "lookup" /\ ret.missing /\ IsAsset(ret.key)
    /\ held.cls = "Position" /\ held.key = ret.key /\ ~held.alias
    /\ held.obj.amount # Num(0)
    /\ ret.key \notin DOMAIN positions

\* C2: the lookup of an asset that is not held does not raise and returns a
\* Position for that asset with amount 0, cost_basis 0.0, last_sale_price 0.0
\* and no last_sale_date.
C2_MissingAssetIsZeroPosition ==
    (ret.op = "lookup" /\ ret.missing /\ IsAsset(ret.key))
        => /\ ret.status = "returned"
           /\ ret.cls = "Position"
           /\ DOMAIN ret.obj = {"asset", "amount", "cost_basis",
                                "last_sale_price", "last_sale_date"}
           /\ ret.obj.asset = ret.key
           /\ ret.obj.amount.v = 0 /\ ret.obj.amount.t = "num"
           /\ ret.obj.cost_basis.v = 0 /\ ret.obj.cost_basis.t = "num"
           /\ ret.obj.last_sale_price.v = 0 /\ ret.obj.last_sale_price.t = "num"
           /\ ret.obj.last_sale_date.t = "None"
           /\ ret.warnings = <<>>

\* An asset that is not held is looked up in a book that holds another asset
\* with a non-zero amount.
C2_Witness ==
    /\ ret.op = "lookup" /\ ret.missing /\ IsAsset(ret.key)
    /\ \E k \in DOMAIN positions : positions[k].amount # Num(0)

\* C3: the lookup of a key that is not an asset does not raise, emits a
\* warning, returns a zero-valued record that carries the key as its sid and
\* has no asset slot, and leaves the book as it was.
C3_NonAssetLookup ==
    [][\A key \in NonAssetKeys :
          MissingLookupStep(key) =>
              /\ positions' = positions
              /\ key \notin DOMAIN positions'
              /\ ret'.status = "returned"
              /\ Len(ret'.warnings) = 1
              /\ ret'.cls = "_DeprecatedSidLookupPosition"
              /\ "asset" \notin DOMAIN ret'.obj
              /\ ret'.obj.sid = key
              /\ ZeroFields(ret'.obj)]_vars

\* Both kinds of non-asset key (an integer, anything else) were looked up in a
\* book that is not empty.
C3_Witness ==
    /\ ret.op = "lookup" /\ ret.cls = "_DeprecatedSidLookupPosition"
    /\ ret.key = StrKey(1)
    /\ held.cls = "_DeprecatedSidLookupPosition" /\ held.key = IntKey(100)
    /\ DOMAIN positions # {}

----------------------------------------------------------------------------
(* The deprecated key lookup. *)

\* The frozen attribute sets handed to _deprecated_getitem_method.
PortfolioAttrs ==
    {"capital_used", "starting_cash", "portfolio_value", "pnl", "returns",
     "cash", "positions", "start_date", "positions_value"}

AccountAttrs ==
    {"settled_cash", "accrued_interest", "buying_power", "equity_with_loan",
     "total_positions_value", "total_positions_exposure", "regt_equity",
     "regt_margin", "initial_margin_requirement",
     "maintenance_margin_requirement", "available_funds", "excess_liquidity",
     "cushion", "day_trades_remaining", "leverage", "net_leverage",
     "net_liquidation"}

PositionAttrs ==
    {"sid", "amount", "cost_basis", "last_sale_price", "last_sale_date"}

\* The attrs each class passes (AlgorithmPortfolio inherits Portfolio's).
AttrsOf(cls) ==
    CASE cls = "AlgorithmPortfolio" -> PortfolioAttrs
      [] cls = "Account" -> AccountAttrs
      [] cls = "Position" -> PositionAttrs
      [] cls = "_DeprecatedSidLookupPosition" -> PositionAttrs
      [] OTHER -> {}

\* The name each class passes for the warning text.
NameOf(cls) ==
    CASE cls = "AlgorithmPortfolio" -> "portfolio"
      [] cls = "Account" -> "account"
      [] cls = "Position" -> "position"
      [] cls = "_DeprecatedSidLookupPosition" -> "position"
      [] OTHER -> ""

Returned(val, warnings) ==
    [status |-> "returned", val |-> val, exc |-> "", warnings |-> warnings]
Raised(exc, warnings) ==
    [status |-> "raised", val |-> None, exc |-> exc, warnings |-> warnings]

\* A __getitem__ that reads the __dict__ for every key.
DeprecatedGetitemUnfrozen(name, attrs, dict, key) ==
    LET w == <<Warning("DeprecationWarning", name)>> IN
    IF key \in DOMAIN dict THEN Returned(dict[key], w) ELSE Raised("KeyError", w)

\* The __getitem__ that _deprecated_getitem_method builds: warn, then read
\* self.__dict__[key] for a key of attrs (itself a KeyError when the __dict__
\* has no such entry) and raise KeyError(key) for any other key.
DeprecatedGetitem(name, attrs, dict, key) ==
    LET w == <<Warning("DeprecationWarning", name)>> IN
    IF key \in attrs
    THEN IF key \in DOMAIN dict
         THEN Returned(dict[key], w)
         ELSE Raised("KeyError", w)
    ELSE Raised("KeyError", w)

\* Attribute access, obj.name: the sid property of Position returns
\* self.asset; any other name is read from the __dict__.
GetAttr(cls, dict, name) ==
    IF cls = "Position" /\ name = "sid"
    THEN Returned(dict["asset"], <<>>)
    ELSE IF name \in DOMAIN dict
    THEN Returned(dict[name], <<>>)
    ELSE Raised("AttributeError", <<>>)

\* obj[key] on a Portfolio, an Account, a Position or a legacy record.
GetItem(target, key) ==
    /\ target = "held" => held.cls # "none"
    /\ LET cls == ClassOf(target)
           out == DeprecatedGetitem(NameOf(cls), AttrsOf(cls), ObjOf(target), key)
       IN  ret' = [op |-> "getitem", target |-> target, cls |-> cls,
                   item |-> key, status |-> out.status, val |-> out.val,
                   exc |-> out.exc, warnings |-> out.warnings]
    /\ UNCHANGED <<positions, portfolio, account, held, lazyMap>>

Targets == {"portfolio", "account", "held"}

\* The names looked up and assigned: every recognized name, the attributes
\* AlgorithmPortfolio and Position hold outside their recognized sets, an
\* attribute added after construction, and a name no record has.
ItemKeys(cls) ==
    IF cls = "none" THEN {} ELSE
    AttrsOf(cls) \cup {"extra", "not_a_field"}
        \cup (IF cls = "AlgorithmPortfolio"
              THEN {"benchmark", "current_date", "data_portal"} ELSE {})
        \cup (IF cls = "Position" THEN {"asset"} ELSE {})

SettableNames(cls) ==
    IF cls = "none" THEN {} ELSE (AttrsOf(cls) \cup {"extra"}) \ {"positions"}

\* How many attributes differ from their value at construction.
Changed(obj, fresh) ==
    Cardinality({n \in DOMAIN obj : n \notin DOMAIN fresh \/ obj[n] # fresh[n]})

FreshHeld ==
    IF held.cls = "Position" THEN Position(held.key)
    ELSE IF held.cls = "_DeprecatedSidLookupPosition"
    THEN DeprecatedSidLookupPosition(held.key)
    ELSE None

Mutations ==
    Changed(portfolio, NewPortfolio(portfolio.benchmark))
        + Changed(account, NewAccount)
        + (IF held.cls = "none" THEN 0 ELSE Changed(Deref(held), FreshHeld))

MaxMutations == 1

NextGetitem ==
    \/ \E key \in {Equity(1), IntKey(100)} : Lookup(key)
    \/ Keep
    \/ \E target \in Targets : \E name \in SettableNames(ClassOf(target)) :
          /\ Mutations < MaxMutations
          /\ SetAttr(target, name, Num(MaxAmount))
    \/ \E target \in Targets : \E key \in ItemKeys(ClassOf(target)) :
          GetItem(target, key)

\* The lookup is exercised on a portfolio built with a benchmark.
InitGetitem == Init /\ portfolio.benchmark = BenchmarkAsset /\ lazyMap = FALSE

SpecGetitem == InitGetitem /\ [][NextGetitem]_vars

----------------------------------------------------------------------------
(* Claims about the deprecated key lookup (checked under SpecGetitem). *)

\* C4: for every record type with the key lookup and every name of its
\* recognized set, obj[name] returns, without raising, what obj.name returns.
C4_GetitemAgreesWithGetattr ==
    (ret.op = "getitem" /\ ret.item \in AttrsOf(ret.cls))
        => /\ ret.status = "returned"
           /\ GetAttr(ret.cls, ObjOf(ret.target), ret.item).status = "returned"
           /\ ret.val = GetAttr(ret.cls, ObjOf(ret.target), ret.item).val

\* Apart from sid on a Position, every recognized name agrees.
GetitemAgreesExceptPositionSid ==
    (/\ ret.op = "getitem"
     /\ ret.item \in AttrsOf(ret.cls)
     /\ ~(ret.cls = "Position" /\ ret.item = "sid"))
        => /\ ret.status = "returned"
           /\ ret.val = GetAttr(ret.cls, ObjOf(ret.target), ret.item).val

\* C5: every key lookup on a Position, a Portfolio or an Account emits exactly
\* one deprecation warning, a name outside the recognized set raises KeyError
\* and returns nothing, also when the record has an attribute of that name,
\* and the lookup changes no field of any record.
C5_GetitemWarnsAndRejects ==
    [][(/\ ret'.op = "getitem"
        /\ ret' # ret
        /\ ret'.cls \in {"Position", "AlgorithmPortfolio", "Account"})
          => /\ Len(ret'.warnings) = 1
             /\ ret'.warnings[1].category = "DeprecationWarning"
             /\ ret'.item \notin AttrsOf(ret'.cls)
                   => (ret'.status = "raised" /\ ret'.exc = "KeyError")
             /\ UNCHANGED <<positions, portfolio, account, held>>]_vars

\* A lookup of an attribute that was added to the portfolio after construction.
C5_Witness ==
    /\ ret.op = "getitem" /\ ret.cls = "AlgorithmPortfolio"
    /\ ret.item = "extra" /\ "extra" \in DOMAIN portfolio
    /\ ret.status = "raised"

----------------------------------------------------------------------------
(* The collaborators of the analytics: asset metadata, the trading         *)
(* calendar, the asset finder and the data portal.                         *)

TRADING_DAYS_PER_YEAR == 252
CVAR_LOOKBACK_DAYS == TRADING_DAYS_PER_YEAR * 2

\* asset.multiplier of a futures contract.
Multiplier(asset) == IF asset = Future(3) THEN 50 ELSE 5

\* asset.start_date of an equity, as a session index.
StartDate(asset) ==
    IF asset = Equity(1) THEN 300 ELSE IF asset = Equity(2) THEN 252 ELSE 0

\* asset.root_symbol of a futures contract.
RootSymbol(asset) == IF asset = Future(3) THEN "CL" ELSE "XX"

\* trading_calendar.session_distance(start, end), on session indices.
session_distance(start, end) == end.v - start.v

\* asset_finder.get_ordered_contracts(root_symbol): the chain of the root
\* symbol, front contract first with the session each contract rolls at; the
\* finder knows no chain for any root symbol but "CL" and raises for it.
get_ordered_contracts(root) ==
    IF root = "CL"
    THEN [ok |-> TRUE,
          chain |-> <<[sid |-> 9, roll |-> 500], [sid |-> 3, roll |-> 2000]>>]
    ELSE [ok |-> FALSE, chain |-> <<>>]

\* OrderedContracts.offset_of_contract(sid, dt): how many contracts out sid is
\* from the front contract as of dt.
offset_of_contract(chain, sid, dt) ==
    LET live == SelectSeq(chain, LAMBDA c : c.roll > dt)
        at == CHOOSE i \in 1..Len(live) : live[i].sid = sid
    IN  at - 1

\* asset_finder.create_continuous_future(root_symbol, offset, roll_style,
\* adjustment)
create_continuous_future(root, offset, roll_style, adjustment) ==
    [t |-> "ContinuousFuture", v |-> 0, root_symbol |-> root,
     offset |-> offset, roll_style |-> roll_style, adjustment |-> adjustment]

\* Whether the data portal has a price history for the asset.
HistoryAvailable(asset) == asset # Asset(5)

----------------------------------------------------------------------------
(* current_portfolio_weights. *)

\* A multiplier that ignores the contract.
asset_multiplier_one(asset) == 1

asset_multiplier(asset) == IF IsFuture(asset) THEN Multiplier(asset) ELSE 1

Abs(x) == IF x < 0 THEN -x ELSE x

RECURSIVE Gcd(_, _)
Gcd(a, b) == IF b = 0 THEN a ELSE Gcd(b, a % b)

\* x / y as the division of the Series by portfolio_value computes it: an
\* exact fraction in lowest terms, and inf, -inf or nan for a zero divisor.
Div(x, y) ==
    IF y = 0
    THEN IF x > 0 THEN [t |-> "inf", n |-> 1, d |-> 0]
         ELSE IF x < 0 THEN [t |-> "inf", n |-> -1, d |-> 0]
         ELSE [t |-> "nan", n |-> 0, d |-> 0]
    ELSE LET g == Gcd(Abs(x), Abs(y))
             sign == IF y < 0 THEN -1 ELSE 1
         IN  [t |-> "frac", n |-> sign * (x \div g), d |-> sign * (y \div g)]

\* The orders in which a Series built from the book may list its keys.
Orders(S) ==
    {o \in [1..Cardinality(S) -> S] : \A i, j \in DOMAIN o : o[i] = o[j] => i = j}

\* One value of position_values.
position_value(asset, position) ==
    position.last_sale_price.v * position.amount.v * asset_multiplier(asset)

\* The Series current_portfolio_weights returns, its index in the given order.
current_portfolio_weights(order) ==
    [index |-> order,
     values |-> [i \in DOMAIN order |->
                    Div(position_value(order[i], positions[order[i]]),
                        portfolio.portfolio_value.v)]]

\* Reading portfolio.current_portfolio_weights.
ReadWeights ==
    /\ \E order \in Orders(DOMAIN positions) :
          LET w == current_portfolio_weights(order) IN
          ret' = [op |-> "weights", status |-> "returned",
                  index |-> w.index, values |-> w.values]
    /\ UNCHANGED <<positions, portfolio, account, held, lazyMap>>

----------------------------------------------------------------------------
(* expected_shortfall. *)

\* A lookback that is not clamped to two years.
NumLookbackDaysUnclamped(d) ==
    IF d < TRADING_DAYS_PER_YEAR
    THEN [enough |-> FALSE, days |-> 0]
    ELSE [enough |-> TRUE, days |-> d]

\* A threshold one session short of a year.
NumLookbackDaysEarly(d) ==
    IF d < TRADING_DAYS_PER_YEAR - 1
    THEN [enough |-> FALSE, days |-> 0]
    ELSE IF d < CVAR_LOOKBACK_DAYS
    THEN [enough |-> TRUE, days |-> d]
    ELSE [enough |-> TRUE, days |-> CVAR_LOOKBACK_DAYS]

\* The if / elif / else on num_days_of_data: not enough history below one
\* year, what is available below two years, two years otherwise.
NumLookbackDays(d) ==
    IF d < TRADING_DAYS_PER_YEAR
    THEN [enough |-> FALSE, days |-> 0]
    ELSE IF d < CVAR_LOOKBACK_DAYS
    THEN [enough |-> TRUE, days |-> d]
    ELSE [enough |-> TRUE, days |-> CVAR_LOOKBACK_DAYS]

\* An asset resolution that substitutes the benchmark for every equity.
AssetForHistoryCallAnyEquity(asset, current_date, benchmark) ==
    IF IsEquity(asset)
    THEN [ok |-> TRUE, asset |-> IF benchmark # None THEN benchmark ELSE asset]
    ELSE IF IsFuture(asset)
    THEN LET oc == get_ordered_contracts(RootSymbol(asset)) IN
         IF ~oc.ok
         THEN [ok |-> FALSE, asset |-> None]
         ELSE [ok |-> TRUE,
               asset |-> create_continuous_future(
                             RootSymbol(asset),
                             offset_of_contract(oc.chain, asset.v, current_date.v),
                             "volume", "mul")]
    ELSE [ok |-> TRUE, asset |-> asset]

\* AlgorithmPortfolio._asset_for_history_call: ok is FALSE when the asset
\* finder raises.
AssetForHistoryCall(asset, current_date, benchmark) ==
    IF IsEquity(asset)
    THEN [ok |-> TRUE,
          asset |-> IF /\ session_distance([t |-> "num", v |-> StartDate(asset)],
                                           current_date) < TRADING_DAYS_PER_YEAR
                       /\ benchmark # None
                    THEN benchmark
                    ELSE asset]
    ELSE IF IsFuture(asset)
    THEN LET oc == get_ordered_contracts(RootSymbol(asset)) IN
         IF ~oc.ok
         THEN [ok |-> FALSE, asset |-> None]
         ELSE [ok |-> TRUE,
               asset |-> create_continuous_future(
                             RootSymbol(asset),
                             offset_of_contract(oc.chain, asset.v, current_date.v),
                             "volume", "mul")]
    ELSE [ok |-> TRUE, asset |-> asset]

\* map(self._asset_for_history_call, weights.index), consumed from the left
\* until a call raises: the assets yielded and the assets the method was
\* called for.
RECURSIVE MapAssets(_, _, _)
MapAssets(index, current_date, benchmark) ==
    IF index = <<>>
    THEN [ok |-> TRUE, out |-> <<>>, called |-> <<>>]
    ELSE LET r == AssetForHistoryCall(Head(index), current_date, benchmark) IN
         IF ~r.ok
         THEN [ok |-> FALSE, out |-> <<>>, called |-> <<Head(index)>>]
         ELSE LET rest == MapAssets(Tail(index), current_date, benchmark) IN
              [ok |-> rest.ok, out |-> <<r.asset>> \o rest.out,
               called |-> <<Head(index)>> \o rest.called]

\* The call data_portal.get_history_window(assets=..., end_dt=current_date,
\* bar_count=num_lookback_days, frequency='1d', field='price',
\* data_frequency='daily').
HistoryCall(assets, end_dt, bar_count) ==
    [assets |-> assets, end_dt |-> end_dt, bar_count |-> bar_count,
     frequency |-> "1d", field |-> "price", data_frequency |-> "daily"]

\* The property expected_shortfall, for one order of the weights' index.  An
\* eager map resolves every asset before the history call is made, so a
\* resolution that raises ends the property before any fetch; a lazy map is
\* consumed by the data portal inside the call.  The value returned is the
\* conditional value at risk of the fetched window, kept abstract here.
expected_shortfall(order) ==
    LET current_date == portfolio.current_date
        look == NumLookbackDays(session_distance(portfolio.start_date,
                                                 current_date))
        weights == current_portfolio_weights(order)
        assets == MapAssets(weights.index, current_date, portfolio.benchmark)
        call == HistoryCall(assets.out, current_date, look.days)
        base == [op |-> "expected_shortfall", index |-> weights.index,
                 values |-> weights.values, called |-> assets.called]
    IN  IF ~look.enough
        THEN [op |-> "expected_shortfall", index |-> <<>>, values |-> <<>>,
              called |-> <<>>, status |-> "returned", val |-> NaN,
              exc |-> "", fetches |-> <<>>]
        ELSE IF ~assets.ok
        THEN base @@ [status |-> "raised", val |-> None,
                      exc |-> "RootSymbolNotFound",
                      fetches |-> IF lazyMap THEN <<call>> ELSE <<>>]
        ELSE IF \E i \in DOMAIN assets.out : ~HistoryAvailable(assets.out[i])
        THEN base @@ [status |-> "raised", val |-> None,
                      exc |-> "HistoryWindowError", fetches |-> <<call>>]
        ELSE base @@ [status |-> "returned",
                      val |-> [t |-> "cvar", v |-> look.days],
                      exc |-> "", fetches |-> <<call>>]

\* A read that also refreshes positions_value from the book.
ReadExpectedShortfallRefreshing ==
    /\ portfolio.start_date # None
    /\ portfolio.current_date # None
    /\ \E order \in Orders(DOMAIN positions) : ret' = expected_shortfall(order)
    /\ portfolio' = [portfolio EXCEPT !.positions_value =
                        Num(Cardinality(DOMAIN positions))]
    /\ UNCHANGED <<positions, account, held, lazyMap>>

\* Reading portfolio.expected_shortfall, once the driver has set the dates the
\* calendar is asked about.
ReadExpectedShortfall ==
    /\ portfolio.start_date # None
    /\ portfolio.current_date # None
    /\ \E order \in Orders(DOMAIN positions) : ret' = expected_shortfall(order)
    /\ UNCHANGED <<positions, portfolio, account, held, lazyMap>>

----------------------------------------------------------------------------
(* The simulation driver. *)

\* The amount and last sale price a fill leaves in a position.
Fills == {<<-1, MaxPrice>>, <<MaxAmount, MaxPrice>>, <<0, 0>>}

Fill(asset, amount, price) ==
    /\ asset \in DOMAIN positions
    /\ positions' = [positions EXCEPT ![asset].amount = Num(amount),
                                      ![asset].last_sale_price = Num(price)]
    /\ ret' = NoRet
    /\ UNCHANGED <<portfolio, account, held, lazyMap>>

PortfolioValues == {0, 300}

SetValuation(value) ==
    /\ portfolio' = [portfolio EXCEPT !.portfolio_value = Num(value)]
    /\ ret' = NoRet
    /\ UNCHANGED <<positions, account, held, lazyMap>>

\* The sessions the clock is set to; the simulation starts at session 0.
Sessions == {251, 252, 503, 504, 1000}

SetClock(session) ==
    /\ portfolio' = [portfolio EXCEPT !.start_date = Num(0),
                                      !.current_date = Num(session)]
    /\ ret' = NoRet
    /\ UNCHANGED <<positions, account, held, lazyMap>>

Next ==
    \/ \E asset \in HeldAssets : Store(asset)
    \/ \E asset \in HeldAssets : \E f \in Fills : Fill(asset, f[1], f[2])
    \/ \E value \in PortfolioValues : SetValuation(value)
    \/ \E session \in Sessions : SetClock(session)
    \/ ReadWeights
    \/ ReadExpectedShortfall

Spec == Init /\ [][Next]_vars

----------------------------------------------------------------------------
(* Claims about the analytics (checked under Spec). *)

\* The session distance between start_date and current_date.
Distance == portfolio.current_date.v - portfolio.start_date.v

Min(a, b) == IF a < b THEN a ELSE b

\* C6: below 252 sessions expected_shortfall returns NaN and raises nothing,
\* whatever the portfolio holds, without fetching any history window and
\* without resolving any asset.
C6_ShortHistoryIsNaN ==
    (ret.op = "expected_shortfall" /\ Distance < 252)
        => /\ ret.status = "returned"
           /\ ret.val = NaN
           /\ ret.fetches = <<>>
           /\ ret.called = <<>>

\* 251 sessions, a zero portfolio value, and a book that holds a future whose
\* root symbol is unknown and an asset without history.
C6_Witness ==
    /\ ret.op = "expected_shortfall"
    /\ Distance = 251
    /\ portfolio.portfolio_value = Num(0)
    /\ DOMAIN positions = {Future(4), Asset(5)}
    /\ \A a \in DOMAIN positions : positions[a].amount # Num(0)

\* C7 as stated: from 252 sessions on, exactly one history window is fetched,
\* ending at current_date, with min(d, 504) bars.
C7_ExactlyOneFetch ==
    (ret.op = "expected_shortfall" /\ Distance >= 252)
        => /\ Len(ret.fetches) = 1
           /\ ret.fetches[1].end_dt = portfolio.current_date
           /\ ret.fetches[1].bar_count = Min(Distance, 504)

\* No held futures contract has a root symbol the asset finder rejects.
EveryAssetResolves ==
    \A a \in DOMAIN positions :
        IsFuture(a) => get_ordered_contracts(RootSymbol(a)).ok

\* C7 amended: from 252 sessions on, never more than one history window is
\* fetched, any window fetched ends at current_date and has min(d, 504) bars,
\* and exactly one is fetched when the resolution of every held asset
\* succeeds.
C7_LookbackClamped ==
    (ret.op = "expected_shortfall" /\ Distance >= 252)
        => /\ Len(ret.fetches) <= 1
           /\ \A i \in DOMAIN ret.fetches :
                 /\ ret.fetches[i].end_dt = portfolio.current_date
                 /\ ret.fetches[i].bar_count = Min(Distance, 504)
           /\ EveryAssetResolves => Len(ret.fetches) = 1

\* 1000 sessions, a book that is not empty: one window of 504 bars.
C7_Witness ==
    /\ ret.op = "expected_shortfall"
    /\ Distance = 1000
    /\ DOMAIN positions # {}
    /\ Len(ret.fetches) = 1
    /\ ret.fetches[1].bar_count = 504

\* The effective asset as C8 describes it.
C8_Effective(asset) ==
    CASE asset.t = "Equity" ->
            IF /\ portfolio.current_date.v - StartDate(asset) < 252
               /\ portfolio.benchmark.t # "None"
            THEN portfolio.benchmark
            ELSE asset
      [] asset.t = "Future" ->
            [t |-> "ContinuousFuture", v |-> 0,
             root_symbol |-> RootSymbol(asset),
             offset |-> offset_of_contract(
                            get_ordered_contracts(RootSymbol(asset)).chain,
                            asset.v, portfolio.current_date.v),
             roll_style |-> "volume", adjustment |-> "mul"]
      [] OTHER -> asset

\* C8: every asset handed to the history fetch is the effective asset of the
\* weighted asset at the same place of the weights' index (the benchmark for a
\* young equity when one is configured, the continuous future for a futures
\* contract, the asset itself otherwise), and when every resolution succeeds
\* the list has one entry per weighted asset, duplicates kept.
C8_EffectiveAssets ==
    (ret.op = "expected_shortfall" /\ ret.fetches # <<>>)
        => LET assets == ret.fetches[1].assets IN
           /\ Len(assets) <= Len(ret.index)
           /\ \A i \in DOMAIN assets : assets[i] = C8_Effective(ret.index[i])
           /\ EveryAssetResolves => Len(assets) = Len(ret.index)
           /\ {ret.index[i] : i \in DOMAIN ret.index} = DOMAIN positions
           /\ Len(ret.index) = Len(ret.values)

\* Two young equities, both replaced by the benchmark.
C8_Witness ==
    /\ ret.op = "expected_shortfall"
    /\ DOMAIN positions = {Equity(1), Equity(2)}
    /\ Len(ret.fetches) = 1
    /\ ret.fetches[1].assets = <<BenchmarkAsset, BenchmarkAsset>>

RECURSIVE SumOver(_, _)
SumOver(f, S) ==
    IF S = {} THEN 0
    ELSE LET x == CHOOSE y \in S : TRUE IN f[x] + SumOver(f, S \ {x})

\* The market value of a held asset as C9 describes it.
C9_MarketValue(asset) ==
    positions[asset].last_sale_price.v * positions[asset].amount.v
        * (IF asset.t = "Future" THEN Multiplier(asset) ELSE 1)

C10_ReadsHaveNoEffect ==
    [][ret'.op \in {"weights", "expected_shortfall"}
          => /\ DOMAIN positions' = DOMAIN positions
             /\ \A a \in DOMAIN positions : positions'[a] = positions[a]
             /\ DOMAIN portfolio' = DOMAIN portfolio
             /\ \A f \in {"cash", "starting_cash", "capital_used",
                          "portfolio_value", "positions_value", "pnl",
                          "returns", "start_date", "current_date",
                          "benchmark"} : portfolio'[f] = portfolio[f]]_vars

\* expected_shortfall ran to its result on a book of two positions.
C10_Witness ==
    /\ ret.op = "expected_shortfall"
    /\ ret.status = "returned"
    /\ ret.val.t = "cvar"
    /\ Cardinality(DOMAIN positions) = 2

====
